---- MODULE Spec2Model ----
(***************************************************************************)
(* A model of the Krowdly backend: stateless HTTP handlers over an         *)
(* external relational store, plus the socket variant's in-memory presence *)
(* map.  Three variants of the service exist in the repository:            *)
(*   "rest"   : src/server.js (and the same handlers in src/unnamed/       *)
(*              part_001, which also adds comments, follows, notifications *)
(*              and trending);                                             *)
(*   "socket" : src/unnamed/part_000 (express + socket.io).                *)
(* A handler is a sequence of steps, one per awaited store call: the store *)
(* executes the call atomically and the handler runs on, synchronously, to *)
(* its next await or to its response.  Steps of different requests         *)
(* interleave freely.                                                      *)
(***************************************************************************)
EXTENDS Integers, Sequences, FiniteSets, TLC

\* ------------------------------------------------------------------ bounds
\* Event ids the store hands out (ids are never reused).
MaxEvents == 1
\* Rows the users table may hold.
MaxUsers == 3
\* ids the store hands out for rows of follows
MaxFollows == 2
\* rows of messages
MaxMessages == 3
\* the hour the clock stops at
MaxTime == 36
\* rows of comments
MaxComments == 1

\* ---------------------------------------------------------------- universes
Variants == {"rest", "socket"}
\* Request slots: requests being handled at the same time.
Procs == {"p1", "p2"}
\* A missing (undefined) or empty request field: falsy in JavaScript.
NoValue == ""
UserIds == {"u1", "u2"}
DisplayNames == {"Bob"}
EventIds == 1..MaxEvents
\* the ids socket.io gives the connections
SocketIds == {"c1", "c2"}

VARIABLES
    variant,      \* which variant of the service is deployed
    events,       \* the events table: id -> row
    eventSeq,     \* the last event id the store handed out
    req,          \* per request slot: the handler's position and locals
    resp,         \* the HTTP response sent by the last step (NoResp if none)
    emits,        \* the socket.io messages emitted by the last step
    lastToggle,   \* history: the last RSVP toggle that ran without interference
    users,        \* the users table, in insertion order
    signedUp,     \* history: the <<email, password>> of successful sign-ups
    follows,      \* the follows table, in insertion order
    followSeq,    \* the last follows id the store handed out
    notifications,\* the notifications table, in insertion order
    lastFollow,   \* history: the last follow toggle that ran alone
    messages,     \* the messages table, in insertion order
    onlineUsers,  \* the presence map: entries uid -> sid in insertion order
    conn,         \* per socket id: "new", "open" or "closed"
    reg,          \* per socket: its registerUser handler's position and locals
    disc,         \* per socket: its disconnect handler's position and locals
    done,         \* history: the socket handler the last step completed
    now,          \* the clock, in hours
    env,          \* process.env: which of the datastore variables are set
    comments      \* the comments table: the last id handed out, and the rows

vars == <<variant, events, eventSeq, req, resp, emits, lastToggle, users, signedUp,
          follows, followSeq, notifications, lastFollow, messages,
          onlineUsers, conn, reg, disc, done, now, env, comments>>

deployment == <<variant, env>>

eventStore == <<events, eventSeq, lastToggle, now>>
userStore == <<users, signedUp>>
socialStore == <<follows, followSeq, notifications, lastFollow>>
msgStore == <<messages>>
presence == <<onlineUsers, conn, reg, disc>>

Idle == [pc |-> "idle"]
NoResp == [op |-> "none", status |-> 0]
NoDone == [handler |-> "none", sid |-> NoValue, uid |-> NoValue, alone |-> FALSE,
           held |-> {}, list |-> <<>>]
NoToggle == [id |-> 0, userId |-> NoValue, before |-> {}, after |-> <<>>]

\* ------------------------------------------------------------ configuration
\* both datastore variables set
AllSet == [SUPABASE_URL |-> TRUE, SUPABASE_SERVICE_KEY |-> TRUE]

\* (mutant) a client is made as soon as the URL is set
getSupabaseUrlOnly(e) == e.SUPABASE_URL

\* getSupabase(): TRUE for a client, FALSE for null
getSupabase(e) == e.SUPABASE_URL /\ e.SUPABASE_SERVICE_KEY

\* sb: the REST variant asks getSupabase() in every handler; the socket variant
\* makes its client when the module loads
Client == variant = "socket" \/ getSupabase(env)

\* the routes that start with  const sb = getSupabase(); if (!sb) return dbError(res);
DataRoutes ==
    {"POST /api/users", "POST /api/auth/signin", "POST /api/auth/signout",
     "GET /api/users", "PATCH /api/users/:id", "GET /api/events", "POST /api/events",
     "DELETE /api/events/:id", "POST /api/events/:id/rsvp",
     "GET /api/messages/:userId/:otherId", "POST /api/messages",
     "GET /api/events/:id/comments", "POST /api/events/:id/comments",
     "DELETE /api/comments/:id", "GET /api/users/:id/follows", "POST /api/follows",
     "GET /api/notifications/:userId", "PATCH /api/notifications/:userId/read",
     "POST /api/notifications", "GET /api/events/trending"}

\* dbError(res)
dbError(route) ==
    [op |-> route, status |-> 500, error |-> "Database not configured", steps |-> 5]

\* any data route of the REST variant when getSupabase() answers null
NotConfigured(p, route) ==
    /\ variant = "rest"
    /\ req[p].pc = "idle"
    /\ ~getSupabase(env)
    /\ resp' = dbError(route)
    /\ emits' = <<>>
    /\ done' = NoDone
    /\ UNCHANGED <<deployment, comments, eventStore, userStore, socialStore, msgStore,
                   presence, req>>

\* GET /: the health route
Health(p) ==
    /\ variant = "rest"
    /\ req[p].pc = "idle"
    /\ LET missing == (IF env.SUPABASE_URL THEN <<>> ELSE <<"SUPABASE_URL">>)
                         \o (IF env.SUPABASE_SERVICE_KEY THEN <<>>
                                 ELSE <<"SUPABASE_SERVICE_KEY">>)
       IN resp' = IF Len(missing) > 0
                  THEN [op |-> "health", status |-> 500,
                        text |-> "Backend running but NOT configured",
                        missing_env_vars |-> missing]
                  ELSE [op |-> "health", status |-> 200,
                        text |-> "Krowdly backend is live", missing_env_vars |-> <<>>]
    /\ emits' = <<>>
    /\ done' = NoDone
    /\ UNCHANGED <<deployment, comments, eventStore, userStore, socialStore, msgStore,
                   presence, req>>

\* ------------------------------------------------------------ pure helpers
\* (mutant) the lookup compares the wrong field and never matches
FindByUsername(rsvps, userId) ==
    \E i \in DOMAIN rsvps : rsvps[i].username = userId

\* rsvps.find(r => r.userId === userId): is there a matching entry
Find(rsvps, userId) ==
    \E i \in DOMAIN rsvps : rsvps[i].userId = userId

\* (mutant) the filter keeps the entries it should drop
FilterInverted(rsvps, userId) ==
    SelectSeq(rsvps, LAMBDA r : r.userId = userId)

\* rsvps.filter(r => r.userId !== userId)
Filter(rsvps, userId) ==
    SelectSeq(rsvps, LAMBDA r : r.userId # userId)

\* the toggled list: remove every entry of userId, or append one
\* (mutant) the user is added when absent and never removed
ToggleRsvpAddOnly(rsvps, userId, username) ==
    IF Find(rsvps, userId) THEN rsvps
    ELSE Append(rsvps, [userId |-> userId, username |-> username])

ToggleRsvp(rsvps, userId, username) ==
    IF Find(rsvps, userId)
    THEN Filter(rsvps, userId)
    ELSE Append(rsvps, [userId |-> userId, username |-> username])

\* the user ids on an RSVP list
Members(rsvps) == {rsvps[i].userId : i \in DOMAIN rsvps}

\* ------------------------------------------------------------------ events
\* A tags value is null or a list of strings.
NoTags == [null |-> TRUE, items |-> <<>>]
Tags(items) == [null |-> FALSE, items |-> items]

\* the optional fields of a create request, all missing; coordinates are
\* tokens, "0" the number zero
NoOptions == [privacy |-> NoValue, lat |-> NoValue, lng |-> NoValue,
              tags |-> NoTags, created_by |-> NoValue, rsvps |-> <<>>]

\* what the store puts in the tags column when an insert leaves it out: the
\* schema is not part of the source, the column is null or empty
TagDefaults == {NoTags, Tags(<<>>)}

\* (mutant) the request's RSVP list is stored
BodyRsvps(opts) == opts.rsvps

\* rsvps: []
NoRsvps(opts) == <<>>

\* value || fallback
OrElse(value, fallback) == IF value = NoValue THEN fallback ELSE value

\* tags || []
TagsOrEmpty(tags) == IF tags.null THEN Tags(<<>>) ELSE tags

\* the row a create request inserts.  The socket variant writes neither tags
\* nor created_by: tags is the store's default, created_by is null.
EventRow(id, name, host, opts, tagDefault) ==
    [id |-> id, name |-> name, host |-> host,
     privacy |-> OrElse(opts.privacy, "public"),
     lat |-> OrElse(opts.lat, "0"),
     lng |-> OrElse(opts.lng, "0"),
     rsvps |-> NoRsvps(opts),
     tags |-> IF variant = "rest" THEN TagsOrEmpty(opts.tags) ELSE tagDefault,
     created_by |-> IF variant = "rest" THEN opts.created_by ELSE NoValue,
     created_at |-> now]

\* POST /api/events: validate, insert one row with rsvps: [], return it.
CreateEvent(p, name, location, category, host, opts) ==
    /\ req[p].pc = "idle"
    /\ Client
    /\ IF name = NoValue \/ location = NoValue \/ category = NoValue \/ host = NoValue
       THEN /\ resp' = [op |-> "createEvent", status |-> 400, events0 |-> events,
                        required |-> <<name, location, category, host>>]
            /\ emits' = <<>>
            /\ UNCHANGED <<events, eventSeq>>
       ELSE /\ eventSeq < MaxEvents
            /\ \E tagDefault \in IF variant = "rest" THEN {NoTags} ELSE TagDefaults :
                  LET id == eventSeq + 1
                      row == EventRow(id, name, host, opts, tagDefault)
                  IN /\ events' = [i \in DOMAIN events \cup {id} |->
                                       IF i = id THEN row ELSE events[i]]
                     /\ eventSeq' = id
                     /\ resp' = [op |-> "createEvent", status |-> 200, body |-> row,
                                 opts |-> opts, events0 |-> events,
                                 required |-> <<name, location, category, host>>]
                     /\ emits' = IF variant = "socket"
                                 THEN <<[to |-> "all", event |-> "eventPosted"],
                                        [to |-> "all", event |-> "activity"]>>
                                 ELSE <<>>
    /\ done' = NoDone
    /\ UNCHANGED <<deployment, comments, req, lastToggle, now, userStore,
                   socialStore, msgStore, presence>>

\* DELETE /api/events/:id: delete the matching rows; success either way.
DeleteEvent(p, id) ==
    /\ req[p].pc = "idle"
    /\ Client
    /\ events' = [i \in DOMAIN events \ {id} |-> events[i]]
    /\ resp' = [op |-> "deleteEvent", status |-> 200]
    /\ emits' = IF variant = "socket"
                THEN <<[to |-> "all", event |-> "eventDeleted"]>>
                ELSE <<>>
    /\ done' = NoDone
    /\ UNCHANGED <<deployment, comments, eventSeq, req, lastToggle, now, userStore,
                   socialStore, msgStore, presence>>

\* data: null of a select that found no row
NoEvent == [id |-> 0, name |-> NoValue, host |-> NoValue, privacy |-> NoValue,
            lat |-> NoValue, lng |-> NoValue, rsvps |-> <<>>, tags |-> NoTags,
            created_by |-> NoValue, created_at |-> 0]

\* .from('events').select('*').eq('id', id).single(): the row, or an error and
\* null data when no row has the id
FetchEvent(id) == IF id \in DOMAIN events THEN events[id] ELSE NoEvent

\* (mutant) the handler goes on without an event
MissingNever(ev) == FALSE

\* fetchErr || !ev
Missing(ev) == ev = NoEvent

\* POST /api/events/:id/rsvp, first await: fetch the event row.
RsvpFetch(p, id, userId, username) ==
    /\ req[p].pc = "idle"
    /\ Client
    /\ emits' = <<>>
    /\ LET ev == FetchEvent(id)
           answer(status) == [op |-> "rsvp", status |-> status, id |-> id,
                              userId |-> userId, absent |-> id \notin DOMAIN events,
                              events0 |-> events, notifications0 |-> notifications]
       IN IF variant = "rest" /\ userId = NoValue
          THEN /\ resp' = answer(400)
               /\ req' = req
          ELSE IF Missing(ev)
          THEN /\ resp' = answer(404)
               /\ req' = req
          ELSE /\ resp' = NoResp
               /\ req' = [req EXCEPT ![p] =
                             [pc |-> "rsvp_update", id |-> id, userId |-> userId,
                              username |-> username, ev |-> ev,
                              absent |-> id \notin DOMAIN events]]
    /\ done' = NoDone
    /\ UNCHANGED <<deployment, comments, eventStore, userStore,
                   socialStore, msgStore, presence>>

\* The handlers registered for POST /api/events/:id/rsvp, in the order of
\* their app.post calls: the plain toggle, then the one that also notifies.
RsvpRoutes == <<"rsvp", "rsvp_notify">>

\* Express runs the first handler registered for the path; a handler that
\* answers without calling next() ends the dispatch
Dispatch(routes) == Head(routes)

\* (mutant) an insert that always stores its row
InsertRowAlways(rows, row, ok) == Append(rows, row)

\* await sb.from('notifications').insert([row]) with its result dropped: the
\* row is stored when the store accepts it; a refusal comes back as an error
\* field nobody reads, and the handler goes on
InsertRow(rows, row, ok) == IF ok THEN Append(rows, row) ELSE rows

\* the notification row of an RSVP: for the event's creator, of type 'rsvp'
RsvpNotification(ev, userId) ==
    [user_id |-> ev.created_by, type |-> "rsvp", title |-> ev.name, data |-> userId]

\* !already && ev.created_by && ev.created_by !== userId
NotifiesCreator(already, ev, userId) ==
    ~already /\ ev.created_by # NoValue /\ ev.created_by # userId

\* POST /api/events/:id/rsvp, second await: overwrite the whole list.  The
\* handler that notifies is never dispatched to; its insert of the
\* notification is written as part of this step.
RsvpUpdate(p) ==
    /\ req[p].pc = "rsvp_update"
    /\ LET r == req[p]
           already == Find(r.ev.rsvps, r.userId)
           rsvps == ToggleRsvp(r.ev.rsvps, r.userId, r.username)
       IN IF r.id \notin DOMAIN events
          THEN \* .single() on an update that matched no row: error
               /\ resp' = [op |-> "rsvp", status |-> 500, id |-> r.id,
                           userId |-> r.userId, absent |-> r.absent,
                           events0 |-> events, notifications0 |-> notifications]
               /\ emits' = <<>>
               /\ UNCHANGED <<events, lastToggle, notifications>>
          ELSE LET undisturbed == r.ev.rsvps = events[r.id].rsvps
                   second == /\ undisturbed
                             /\ lastToggle.id = r.id
                             /\ lastToggle.userId = r.userId
                             /\ lastToggle.after = r.ev.rsvps
                   notifies == /\ variant = "rest"
                               /\ Dispatch(RsvpRoutes) = "rsvp_notify"
                               /\ NotifiesCreator(already, r.ev, r.userId)
               IN /\ events' = [events EXCEPT ![r.id].rsvps = rsvps]
                  /\ \E ok \in BOOLEAN :
                        /\ notifications' =
                              IF notifies
                              THEN InsertRow(notifications,
                                             RsvpNotification(r.ev, r.userId), ok)
                              ELSE notifications
                        /\ resp' = [op |-> "rsvp", status |-> 200, body |-> events'[r.id],
                              id |-> r.id, userId |-> r.userId,
                              absent |-> r.absent, events0 |-> events,
                              notifications0 |-> notifications,
                              notified |-> notifies /\ ok,
                              fetched |-> r.ev.rsvps,
                              undisturbed |-> undisturbed,
                              second |-> second, before |-> lastToggle.before]
                  /\ emits' = IF variant = "socket"
                              THEN <<[to |-> "all", event |-> "eventUpdated"]>>
                                   \o (IF already THEN <<>>
                                       ELSE <<[to |-> "all", event |-> "activity"]>>)
                              ELSE <<>>
                  /\ lastToggle' = IF undisturbed
                                   THEN [id |-> r.id, userId |-> r.userId,
                                         before |-> Members(r.ev.rsvps),
                                         after |-> rsvps]
                                   ELSE NoToggle
    /\ req' = [req EXCEPT ![p] = Idle]
    /\ done' = NoDone
    /\ UNCHANGED <<deployment, comments, eventSeq, now, userStore, follows, followSeq, lastFollow,
                   msgStore, presence>>

\* ------------------------------------------------------------------ strings
\* Strings whose characters matter (usernames, emails, passwords) are sequences
\* of one-character strings.  The empty string is falsy, like a missing field;
\* the users table never stores an empty string, so in a column it is SQL NULL.
NoStr == <<>>

\* String.prototype.toLowerCase / the case folding of ILIKE, per character
LowerChar(c) ==
    CASE c = "A" -> "a"
      [] c = "B" -> "b"
      [] OTHER -> c

Lower(s) == [i \in DOMAIN s |-> LowerChar(s[i])]

\* SQL LIKE: "_" matches any one character, "%" any run of characters
RECURSIVE LikeMatch(_, _)
LikeMatch(s, pattern) ==
    IF pattern = <<>> THEN s = <<>>
    ELSE IF Head(pattern) = "%"
    THEN LikeMatch(s, Tail(pattern)) \/ (s # <<>> /\ LikeMatch(Tail(s), pattern))
    ELSE /\ s # <<>>
         /\ Head(pattern) = "_" \/ Head(pattern) = Head(s)
         /\ LikeMatch(Tail(s), Tail(pattern))

\* .ilike(column, pattern): case-insensitive LIKE; NULL matches nothing
ILike(value, pattern) ==
    value # NoStr /\ LikeMatch(Lower(value), Lower(pattern))

\* .eq(column, x): exact equality; NULL equals nothing
Eq(value, x) ==
    value # NoStr /\ value = x

\* .maybeSingle(): the row when exactly one matches, null data when none does,
\* an error (and null data) when several do
MaybeSingle(rows) ==
    [found |-> Len(rows) = 1,
     error |-> Len(rows) > 1,
     data  |-> IF Len(rows) = 1 THEN rows[1] ELSE <<>>]

\* ------------------------------------------------------------------- users
\* password.length < 6 is rejected
MinPasswordLength == 6

Pw1 == <<"s", "e", "c", "r", "e", "t", "1">>
Pw2 == <<"s", "e", "c", "r", "e", "t", "2">>
PwShort == <<"a", "b", "c">>
Names == {<<"a">>, <<"A">>, <<"_">>}

\* process.env.PASSWORD_SALT || 'krowdly_salt_2026'
PasswordSalt == <<"krowdly_salt_2026">>

\* sha256(pw + salt), hex: one value per salted password
hashPassword(pw) == <<"sha256">> \o pw \o PasswordSalt

\* bcrypt.hash(password, 10): a fresh random salt each time
BcryptSalts == {"salt1", "salt2"}
BcryptHash(pw, salt) == <<"bcrypt", salt>> \o pw

\* bcrypt.compare(password, hash)
BcryptCompare(pw, hash) ==
    /\ Len(hash) >= 2
    /\ hash[1] = "bcrypt"
    /\ SubSeq(hash, 3, Len(hash)) = pw

\* the ids the store gives the rows of users, in insertion order
UserId(n) ==
    CASE n = 1 -> "u1"
      [] n = 2 -> "u2"
      [] n = 3 -> "u3"
      [] OTHER -> "u4"

\* .select('id, username, email, avatar, online, bio, profile_color, created_at')
SafeColumns == {"id", "username", "email", "online"}
\* .select('id, username, avatar, online, bio, profile_color, created_at')
ListColumns == {"id", "username", "online"}

\* the columns of a select list
Project(row, cols) == [c \in cols |-> row[c]]

\* const { password_hash, ...safe } = row
Omit(row, col) == [c \in (DOMAIN row) \ {col} |-> row[c]]

NewUser(username, email, hash) ==
    [id |-> UserId(Len(users) + 1), username |-> username, email |-> email,
     password_hash |-> hash, online |-> TRUE]

\* .update({ online }).eq('id', id)
\* (mutant) an update without its .eq('id', ...) filter
SetOnlineAll(id, flag) ==
    [i \in DOMAIN users |-> [users[i] EXCEPT !.online = flag]]

\* .update({ online: flag }).eq('id', id)
SetOnline(id, flag) ==
    [i \in DOMAIN users |->
        IF users[i].id = id THEN [users[i] EXCEPT !.online = flag] ELSE users[i]]

\* history: a stored user has this email or this username, letter case ignored
Taken(username, email) ==
    \E i \in DOMAIN users :
        \/ users[i].email # NoStr /\ Lower(users[i].email) = Lower(email)
        \/ Lower(users[i].username) = Lower(username)

\* sign-up handlers that may still insert a row
Inserting ==
    Cardinality({q \in Procs : req[q].pc \in
        {"signup_name", "signup_insert", "socket_insert", "legacy_insert"}})

\* POST /api/users (REST), to the first await: validate, look the email up.
SignUpCheckEmail(p, username, email, password) ==
    /\ variant = "rest"
    /\ req[p].pc = "idle"
    /\ Client
    /\ emits' = <<>>
    /\ IF username = NoStr \/ email = NoStr \/ password = NoStr
          \/ Len(password) < MinPasswordLength
       THEN /\ resp' = [op |-> "signup", status |-> 400]
            /\ req' = req
       ELSE LET byEmail == MaybeSingle(SelectSeq(users, LAMBDA u : Eq(u.email, email)))
            IN IF byEmail.found
               THEN /\ resp' = [op |-> "signup", status |-> 409,
                                proper |-> TRUE, taken |-> Taken(username, email), users0 |-> users]
                    /\ req' = req
               ELSE /\ Len(users) + Inserting < MaxUsers
                    /\ resp' = NoResp
                    /\ req' = [req EXCEPT ![p] =
                                  [pc |-> "signup_name", username |-> username,
                                   email |-> email, password |-> password,
                                   proper |-> TRUE, taken |-> Taken(username, email), users0 |-> users]]
    /\ done' = NoDone
    /\ UNCHANGED <<deployment, comments, eventStore, userStore,
                   socialStore, msgStore, presence>>

\* POST /api/users (REST), second await: look the username up.
SignUpCheckName(p) ==
    /\ req[p].pc = "signup_name"
    /\ emits' = <<>>
    /\ LET r == req[p]
           byName == MaybeSingle(SelectSeq(users, LAMBDA u : ILike(u.username, r.username)))
       IN IF byName.found
          THEN /\ resp' = [op |-> "signup", status |-> 409,
                           proper |-> r.proper, taken |-> r.taken, users0 |-> r.users0]
               /\ req' = [req EXCEPT ![p] = Idle]
          ELSE /\ resp' = NoResp
               /\ req' = [req EXCEPT ![p].pc = "signup_insert"]
    /\ done' = NoDone
    /\ UNCHANGED <<deployment, comments, eventStore, userStore,
                   socialStore, msgStore, presence>>

\* POST /api/users (REST), third await: insert the row, return the safe columns.
SignUpInsert(p) ==
    /\ req[p].pc = "signup_insert"
    /\ emits' = <<>>
    /\ LET r == req[p]
           row == NewUser(r.username, r.email, hashPassword(r.password))
       IN /\ users' = Append(users, row)
          /\ signedUp' = IF r.taken THEN signedUp
                         ELSE signedUp \cup {<<r.email, r.password>>}
          /\ resp' = [op |-> "signup", status |-> 200, body |-> Project(row, SafeColumns),
                      proper |-> r.proper, taken |-> r.taken, users0 |-> r.users0]
    /\ req' = [req EXCEPT ![p] = Idle]
    /\ done' = NoDone
    /\ UNCHANGED <<deployment, comments, eventStore,
                   socialStore, msgStore, presence>>

\* POST /api/users (socket variant), to the first await: with email and
\* password look the email up; otherwise (legacy) look the username up.
SocketSignUpLookup(p, username, email, password) ==
    /\ variant = "socket"
    /\ req[p].pc = "idle"
    /\ emits' = <<>>
    /\ IF username = NoStr
       THEN /\ resp' = [op |-> "signup", status |-> 400]
            /\ req' = req
       ELSE IF email # NoStr /\ password # NoStr
       THEN LET existingEmail ==
                    MaybeSingle(SelectSeq(users, LAMBDA u : ILike(u.email, email)))
            IN IF existingEmail.found
               THEN /\ resp' = [op |-> "signup", status |-> 409,
                                proper |-> TRUE, taken |-> Taken(username, email), users0 |-> users]
                    /\ req' = req
               ELSE /\ Len(users) + Inserting < MaxUsers
                    /\ resp' = NoResp
                    /\ req' = [req EXCEPT ![p] =
                                  [pc |-> "socket_insert", username |-> username,
                                   email |-> email, password |-> password,
                                   proper |-> TRUE, taken |-> Taken(username, email), users0 |-> users]]
       ELSE LET existing ==
                    MaybeSingle(SelectSeq(users, LAMBDA u : ILike(u.username, username)))
            IN /\ resp' = NoResp
               /\ IF existing.found
                  THEN req' = [req EXCEPT ![p] =
                                  [pc |-> "legacy_update", existing |-> existing.data,
                                   proper |-> FALSE, taken |-> Taken(username, NoStr), users0 |-> users]]
                  ELSE /\ Len(users) + Inserting < MaxUsers
                       /\ req' = [req EXCEPT ![p] =
                                     [pc |-> "legacy_insert", username |-> username,
                                      proper |-> FALSE, taken |-> Taken(username, NoStr), users0 |-> users]]
    /\ done' = NoDone
    /\ UNCHANGED <<deployment, comments, eventStore, userStore,
                   socialStore, msgStore, presence>>

\* POST /api/users (socket variant), sign-up proper: hash, insert with the
\* email lower-cased, return the row without its hash.
SocketSignUpInsert(p) ==
    /\ req[p].pc = "socket_insert"
    /\ emits' = <<>>
    /\ \E salt \in BcryptSalts :
         LET r == req[p]
             row == NewUser(r.username, Lower(r.email), BcryptHash(r.password, salt))
         IN /\ users' = Append(users, row)
            /\ signedUp' = IF r.taken THEN signedUp
                           ELSE signedUp \cup {<<r.email, r.password>>}
            /\ resp' = [op |-> "signup", status |-> 200,
                        body |-> Omit(row, "password_hash"),
                        proper |-> r.proper, taken |-> r.taken, users0 |-> r.users0]
    /\ req' = [req EXCEPT ![p] = Idle]
    /\ done' = NoDone
    /\ UNCHANGED <<deployment, comments, eventStore,
                   socialStore, msgStore, presence>>

\* POST /api/users (socket variant), legacy, the username exists: mark the
\* user online and return the row.
SocketLegacyUpdate(p) ==
    /\ req[p].pc = "legacy_update"
    /\ emits' = <<>>
    /\ LET r == req[p]
       IN /\ users' = SetOnline(r.existing.id, TRUE)
          /\ resp' = [op |-> "signup", status |-> 200,
                      body |-> [Omit(r.existing, "password_hash") EXCEPT !.online = TRUE],
                      proper |-> r.proper, taken |-> r.taken, users0 |-> r.users0]
    /\ req' = [req EXCEPT ![p] = Idle]
    /\ done' = NoDone
    /\ UNCHANGED <<deployment, comments, eventStore, signedUp,
                   socialStore, msgStore, presence>>

\* POST /api/users (socket variant), legacy, the username is new: insert a row
\* with neither email nor hash.
SocketLegacyInsert(p) ==
    /\ req[p].pc = "legacy_insert"
    /\ emits' = <<>>
    /\ LET r == req[p]
           row == NewUser(r.username, NoStr, NoStr)
       IN /\ users' = Append(users, row)
          /\ resp' = [op |-> "signup", status |-> 200,
                      body |-> Omit(row, "password_hash"),
                      proper |-> r.proper, taken |-> r.taken, users0 |-> r.users0]
    /\ req' = [req EXCEPT ![p] = Idle]
    /\ done' = NoDone
    /\ UNCHANGED <<deployment, comments, eventStore, signedUp,
                   socialStore, msgStore, presence>>

\* POST /api/auth/signin (REST), to the first await: validate, select the row
\* with this email and this password's hash.
SignInSelect(p, email, password) ==
    /\ variant = "rest"
    /\ req[p].pc = "idle"
    /\ Client
    /\ emits' = <<>>
    /\ IF email = NoStr \/ password = NoStr
       THEN /\ resp' = [op |-> "signin", status |-> 400]
            /\ req' = req
       ELSE LET m == MaybeSingle(SelectSeq(users, LAMBDA u :
                        Eq(u.email, email) /\ Eq(u.password_hash, hashPassword(password))))
                sent == [op |-> "signin", email |-> email, password |-> password,
                         users0 |-> users]
            IN IF m.error
               THEN /\ resp' = sent @@ [status |-> 500]
                    /\ req' = req
               ELSE IF ~m.found
               THEN /\ resp' = sent @@ [status |-> 401]
                    /\ req' = req
               ELSE /\ resp' = NoResp
                    /\ req' = [req EXCEPT ![p] =
                                  [pc |-> "signin_update", user |-> Project(m.data, SafeColumns),
                                   email |-> email, password |-> password, users0 |-> users]]
    /\ done' = NoDone
    /\ UNCHANGED <<deployment, comments, eventStore, userStore,
                   socialStore, msgStore, presence>>

\* POST /api/auth/signin (socket variant), to the update: select by email
\* (ILIKE), require a hash, compare the password.
SocketSignInSelect(p, email, password) ==
    /\ variant = "socket"
    /\ req[p].pc = "idle"
    /\ emits' = <<>>
    /\ IF email = NoStr \/ password = NoStr
       THEN /\ resp' = [op |-> "signin", status |-> 400]
            /\ req' = req
       ELSE LET m == MaybeSingle(SelectSeq(users, LAMBDA u : ILike(u.email, email)))
                sent == [op |-> "signin", email |-> email, password |-> password,
                         users0 |-> users]
            IN IF m.error \/ ~m.found
               THEN /\ resp' = sent @@ [status |-> 401]
                    /\ req' = req
               ELSE IF m.data.password_hash = NoStr
               THEN /\ resp' = sent @@ [status |-> 401]
                    /\ req' = req
               ELSE IF ~BcryptCompare(password, m.data.password_hash)
               THEN /\ resp' = sent @@ [status |-> 401]
                    /\ req' = req
               ELSE /\ resp' = NoResp
                    /\ req' = [req EXCEPT ![p] =
                                  [pc |-> "signin_update", user |-> Omit(m.data, "password_hash"),
                                   email |-> email, password |-> password, users0 |-> users]]
    /\ done' = NoDone
    /\ UNCHANGED <<deployment, comments, eventStore, userStore,
                   socialStore, msgStore, presence>>

\* POST /api/auth/signin, last await: mark the user online, return the row
\* with online: true.
SignInUpdate(p) ==
    /\ req[p].pc = "signin_update"
    /\ emits' = <<>>
    /\ LET r == req[p]
       IN /\ users' = SetOnline(r.user.id, TRUE)
          /\ resp' = [op |-> "signin", status |-> 200, email |-> r.email,
                      password |-> r.password, users0 |-> r.users0,
                      body |-> [r.user EXCEPT !.online = TRUE]]
    /\ req' = [req EXCEPT ![p] = Idle]
    /\ done' = NoDone
    /\ UNCHANGED <<deployment, comments, eventStore, signedUp,
                   socialStore, msgStore, presence>>

\* POST /api/auth/signout (REST): mark the user with this id offline.
SignOut(p, userId) ==
    /\ variant = "rest"
    /\ req[p].pc = "idle"
    /\ Client
    /\ emits' = <<>>
    /\ IF userId = NoValue
       THEN /\ resp' = [op |-> "signout", status |-> 400, userId |-> userId,
                        users0 |-> users]
            /\ users' = users
       ELSE /\ users' = SetOnline(userId, FALSE)
            /\ resp' = [op |-> "signout", status |-> 200, userId |-> userId,
                        users0 |-> users]
    /\ done' = NoDone
    /\ UNCHANGED <<deployment, comments, eventStore, req, signedUp,
                   socialStore, msgStore, presence>>

\* the rows newest first: .order('created_at', { ascending: false })
NewestFirst(rows) == [i \in 1..Len(rows) |-> rows[Len(rows) + 1 - i]]

\* GET /api/users: the REST variants select the listed columns, the socket
\* variant selects '*'.
GetUsers(p) ==
    /\ req[p].pc = "idle"
    /\ Client
    /\ emits' = <<>>
    /\ LET data == NewestFirst(users)
       IN resp' = [op |-> "getUsers", status |-> 200,
                   body |-> IF variant = "rest"
                            THEN [i \in DOMAIN data |-> Project(data[i], ListColumns)]
                            ELSE data]
    /\ done' = NoDone
    /\ UNCHANGED <<deployment, comments, eventStore, userStore, req,
                   socialStore, msgStore, presence>>

\* ---------------------------------------------------------------- trending
\* 24 * 60 * 60 * 1000 ms, in hours
Day == 24
\* .limit(10)
TrendingLimit == 10

\* time passes
Tick(h) ==
    /\ now + h <= MaxTime
    /\ now' = now + h
    /\ resp' = NoResp
    /\ emits' = <<>>
    /\ done' = NoDone
    /\ UNCHANGED <<deployment, comments, events, eventSeq, lastToggle, req, userStore,
                   socialStore, msgStore, presence>>

\* .eq('privacy', 'public').gte('created_at', since)
IsTrending(ev, since) == ev.privacy = "public" /\ ev.created_at >= since

\* .order('created_at', { ascending: false }): the rows of the ids, newest
\* first; rows of equal created_at come in an order the store chooses
RECURSIVE NewestOrders(_)
NewestOrders(ids) ==
    IF ids = {} THEN {<<>>}
    ELSE LET newest == {id \in ids :
                           \A j \in ids : events[j].created_at <= events[id].created_at}
         IN UNION {{<<events[id]>> \o rest : rest \in NewestOrders(ids \ {id})} :
                      id \in newest}

\* .limit(n)
Limit(rows, n) == IF Len(rows) <= n THEN rows ELSE SubSeq(rows, 1, n)

\* ev.rsvps?.length || 0
RsvpCount(ev) == Len(ev.rsvps)

\* (mutant) (a, b) => a.count - b.count: fewest RSVPs first
FewerFirst(a, b) == RsvpCount(a) - RsvpCount(b)

\* (a, b) => (b.rsvps?.length || 0) - (a.rsvps?.length || 0)
Compare(a, b) == RsvpCount(b) - RsvpCount(a)

\* Array.prototype.sort on at most 10 elements: a stable sort by Compare
RECURSIVE Sort(_)
Sort(rows) ==
    IF rows = <<>> THEN <<>>
    ELSE LET x == rows[Len(rows)]
             front == Sort(SubSeq(rows, 1, Len(rows) - 1))
             keep == {i \in DOMAIN front : Compare(front[i], x) <= 0}
             k == IF keep = {} THEN 0
                  ELSE CHOOSE i \in keep : \A j \in keep : j <= i
         IN SubSeq(front, 1, k) \o <<x>> \o SubSeq(front, k + 1, Len(front))

\* GET /api/events/trending: the newest public events of the last 24 hours,
\* at most 10, sorted by RSVP count.
Trending(p) ==
    /\ variant = "rest"
    /\ req[p].pc = "idle"
    /\ Client
    /\ emits' = <<>>
    /\ LET since == now - Day
           ids == {id \in DOMAIN events : IsTrending(events[id], since)}
       IN \E data \in NewestOrders(ids) :
             resp' = [op |-> "trending", status |-> 200,
                      body |-> Sort(Limit(data, TrendingLimit))]
    /\ done' = NoDone
    /\ UNCHANGED <<deployment, comments, eventStore, userStore, socialStore, msgStore, presence, req>>

\* ---------------------------------------------------------------- comments
NoComments == [seq |-> 0, rows |-> <<>>]

\* GET /api/events/:id/comments
GetComments(p, event_id) ==
    /\ variant = "rest"
    /\ req[p].pc = "idle"
    /\ Client
    /\ resp' = [op |-> "getComments", status |-> 200,
                body |-> SelectSeq(comments.rows, LAMBDA c : c.event_id = event_id)]
    /\ emits' = <<>>
    /\ done' = NoDone
    /\ UNCHANGED <<deployment, comments, eventStore, userStore, socialStore, msgStore,
                   presence, req>>

\* POST /api/events/:id/comments
PostComment(p, event_id, user_id, body) ==
    /\ variant = "rest"
    /\ req[p].pc = "idle"
    /\ Client
    /\ IF user_id = NoValue \/ body = NoValue
       THEN /\ resp' = [op |-> "postComment", status |-> 400]
            /\ UNCHANGED comments
       ELSE /\ comments.seq < MaxComments
            /\ LET row == [id |-> comments.seq + 1, event_id |-> event_id,
                           user_id |-> user_id, body |-> body]
               IN /\ comments' = [seq |-> comments.seq + 1,
                                  rows |-> Append(comments.rows, row)]
                  /\ resp' = [op |-> "postComment", status |-> 200, body |-> row]
    /\ emits' = <<>>
    /\ done' = NoDone
    /\ UNCHANGED <<deployment, eventStore, userStore, socialStore, msgStore,
                   presence, req>>

\* DELETE /api/comments/:id
DeleteComment(p, id) ==
    /\ variant = "rest"
    /\ req[p].pc = "idle"
    /\ Client
    /\ comments' = [comments EXCEPT !.rows = SelectSeq(@, LAMBDA c : c.id # id)]
    /\ resp' = [op |-> "deleteComment", status |-> 200]
    /\ emits' = <<>>
    /\ done' = NoDone
    /\ UNCHANGED <<deployment, eventStore, userStore, socialStore, msgStore,
                   presence, req>>

\* ----------------------------------------------------------- notifications
\* .limit(50)
NotificationLimit == 50

\* GET /api/notifications/:userId
GetNotifications(p, userId) ==
    /\ variant = "rest"
    /\ req[p].pc = "idle"
    /\ Client
    /\ LET mine == SelectSeq(notifications, LAMBDA n : n.user_id = userId)
       IN resp' = [op |-> "getNotifications", status |-> 200,
                   body |-> Limit(NewestFirst(mine), NotificationLimit)]
    /\ emits' = <<>>
    /\ done' = NoDone
    /\ UNCHANGED <<deployment, comments, eventStore, userStore, socialStore, msgStore,
                   presence, req>>

\* ----------------------------------------------------------------- follows
NoFollow == [follower_id |-> NoValue, following_id |-> NoValue, hadEdge |-> FALSE]

\* (mutant) the select filters on the follower only
EdgeMatchesFollower(row, follower_id, following_id) ==
    row.follower_id = follower_id

\* .eq('follower_id', follower_id).eq('following_id', following_id)
EdgeMatches(row, follower_id, following_id) ==
    row.follower_id = follower_id /\ row.following_id = following_id

\* the rows of follows for a pair
Edges(rows, follower_id, following_id) ==
    SelectSeq(rows, LAMBDA r : EdgeMatches(r, follower_id, following_id))

\* (mutant) the delete matches no row
DeleteFollowNone(rows, id) == rows

\* .delete().eq('id', id)
DeleteFollow(rows, id) == SelectSeq(rows, LAMBDA r : r.id # id)

\* (mutant) the notification goes to the follower
FollowNotificationToFollower(follower_id, following_id, username) ==
    [user_id |-> follower_id, type |-> "follow", title |-> username,
     data |-> follower_id]

\* the notification row of a new follow: for the followed user, of type
\* 'follow', titled with the follower's name, carrying the follower's id
FollowNotification(follower_id, following_id, username) ==
    [user_id |-> following_id, type |-> "follow", title |-> username,
     data |-> follower_id]

FollowPcs == {"follow_delete", "follow_insert", "follow_user", "follow_notify"}

\* the slots other than p where a follow handler is in flight
OtherFollows(p) == {q \in Procs \ {p} : req[q].pc \in FollowPcs}

\* history: a follow handler that starts overlaps every one in flight
Overlapped(p) ==
    [q \in Procs |->
        IF q \in OtherFollows(p) THEN [req[q] EXCEPT !.alone = FALSE] ELSE req[q]]

\* POST /api/follows, to the first await: validate, look the edge up.
FollowLookup(p, follower_id, following_id) ==
    /\ variant = "rest"
    /\ req[p].pc = "idle"
    /\ Client
    /\ emits' = <<>>
    /\ IF follower_id = NoValue \/ following_id = NoValue
       THEN /\ resp' = [op |-> "follow", status |-> 400]
            /\ req' = req
       ELSE LET existing == MaybeSingle(Edges(follows, follower_id, following_id))
                inserting == Cardinality({q \in Procs : req[q].pc = "follow_insert"})
            IN /\ existing.found \/ followSeq + inserting < MaxFollows
               /\ resp' = NoResp
               /\ req' = [Overlapped(p) EXCEPT ![p] =
                     [pc |-> IF existing.found THEN "follow_delete" ELSE "follow_insert",
                      follower_id |-> follower_id, following_id |-> following_id,
                      found |-> existing.found,
                      id |-> IF existing.found THEN existing.data.id ELSE 0,
                      username |-> NoStr,
                      alone |-> OtherFollows(p) = {},
                      follows0 |-> follows, notifications0 |-> notifications,
                      overwrote |-> <<>>, written |-> <<>>]]
    /\ done' = NoDone
    /\ UNCHANGED <<deployment, comments, eventStore, userStore, socialStore, msgStore, presence>>

\* history: the pair's rows before and after the handler's write to follows
Wrote(r, after) ==
    [r EXCEPT !.overwrote = Edges(follows, r.follower_id, r.following_id),
              !.written = Edges(after, r.follower_id, r.following_id)]

\* history: what a finished toggle leaves for the next one to compare with
Toggled(r) ==
    IF r.alone
    THEN [follower_id |-> r.follower_id, following_id |-> r.following_id,
          hadEdge |-> Len(Edges(r.follows0, r.follower_id, r.following_id)) > 0]
    ELSE NoFollow

\* the response of a finished toggle, with its history
FollowResponse(r, following) ==
    [op |-> "follow", status |-> 200, following |-> following,
     follower_id |-> r.follower_id, following_id |-> r.following_id,
     found |-> r.found, id |-> r.id, alone |-> r.alone,
     follows0 |-> r.follows0, notifications0 |-> r.notifications0,
     overwrote |-> r.overwrote, written |-> r.written,
     notified |-> FALSE, before |-> notifications,
     second |-> /\ r.alone
                /\ lastFollow.follower_id = r.follower_id
                /\ lastFollow.following_id = r.following_id,
     hadEdge |-> lastFollow.hadEdge]

\* POST /api/follows, the edge exists: delete it, report following: false.
FollowDelete(p) ==
    /\ req[p].pc = "follow_delete"
    /\ emits' = <<>>
    /\ follows' = DeleteFollow(follows, req[p].id)
    /\ resp' = FollowResponse(Wrote(req[p], follows'), FALSE)
    /\ lastFollow' = Toggled(req[p])
    /\ req' = [req EXCEPT ![p] = Idle]
    /\ done' = NoDone
    /\ UNCHANGED <<deployment, comments, eventStore, userStore, followSeq, notifications,
                   msgStore, presence>>

\* POST /api/follows, no edge found: insert one.
FollowInsert(p) ==
    /\ req[p].pc = "follow_insert"
    /\ emits' = <<>>
    /\ resp' = NoResp
    /\ followSeq' = followSeq + 1
    /\ follows' = Append(follows, [id |-> followSeq + 1,
                                   follower_id |-> req[p].follower_id,
                                   following_id |-> req[p].following_id])
    /\ req' = [req EXCEPT ![p] = [Wrote(req[p], follows') EXCEPT !.pc = "follow_user"]]
    /\ done' = NoDone
    /\ UNCHANGED <<deployment, comments, eventStore, userStore, notifications, lastFollow,
                   msgStore, presence>>

\* followerUser.data?.username || 'Someone'; .single() gives no data unless
\* exactly one row matches
FollowerName(follower_id) ==
    LET rows == SelectSeq(users, LAMBDA u : u.id = follower_id)
    IN IF Len(rows) = 1 THEN rows[1].username ELSE <<"Someone">>

\* POST /api/follows, after the insert: read the follower's username.
FollowFetchUser(p) ==
    /\ req[p].pc = "follow_user"
    /\ emits' = <<>>
    /\ resp' = NoResp
    /\ req' = [req EXCEPT ![p].pc = "follow_notify",
                          ![p].username = FollowerName(req[p].follower_id)]
    /\ done' = NoDone
    /\ UNCHANGED <<deployment, comments, eventStore, userStore, socialStore, msgStore, presence>>

\* POST /api/follows, last await: notify the followed user, report
\* following: true whatever became of the insert.
FollowNotify(p) ==
    /\ req[p].pc = "follow_notify"
    /\ emits' = <<>>
    /\ \E ok \in BOOLEAN :
          /\ notifications' = InsertRow(notifications,
                 FollowNotification(req[p].follower_id, req[p].following_id,
                                    req[p].username), ok)
          /\ resp' = [FollowResponse(req[p], TRUE) EXCEPT !.notified = ok]
    /\ lastFollow' = Toggled(req[p])
    /\ req' = [req EXCEPT ![p] = Idle]
    /\ done' = NoDone
    /\ UNCHANGED <<deployment, comments, eventStore, userStore, follows, followSeq,
                   msgStore, presence>>

\* ---------------------------------------------------------------- messages
\* User ids in message routes are opaque tokens: none holds a character that
\* means something in a PostgREST filter (comma, dot, parenthesis).
\* history: the preceding response, when it answered the same conversation
\* requested from the other side
NoHistory == [swapped |-> FALSE, body |-> <<>>]

\* (mutant) only the messages userId sent to otherId
MessageMatchesOneWay(m, userId, otherId) ==
    m.from_user = userId /\ m.to_user = otherId

\* .or(and(from_user.eq.userId,to_user.eq.otherId),
\*     and(from_user.eq.otherId,to_user.eq.userId))
MessageMatches(m, userId, otherId) ==
    \/ m.from_user = userId /\ m.to_user = otherId
    \/ m.from_user = otherId /\ m.to_user = userId

\* .order('created_at', { ascending: true }): the rows in an order that does
\* not descend; rows of equal created_at come in an order the store chooses
RECURSIVE Ascending(_)
Ascending(rows) ==
    IF rows = <<>> THEN {<<>>}
    ELSE LET n == Len(rows)
             oldest == {i \in 1..n :
                           \A j \in 1..n : rows[i].created_at <= rows[j].created_at}
         IN UNION {{<<rows[i]>> \o rest :
                       rest \in Ascending(SubSeq(rows, 1, i - 1) \o SubSeq(rows, i + 1, n))} :
                      i \in oldest}

\* created_at default now(): never earlier than that of a row stored before,
\* possibly equal to it
Stamps ==
    IF messages = <<>> THEN {1}
    ELSE {messages[Len(messages)].created_at, messages[Len(messages)].created_at + 1}

\* .insert([{ from_user, to_user, message }])
NewMessage(from_user, to_user, message, created_at) ==
    [id |-> Len(messages) + 1, from_user |-> from_user, to_user |-> to_user,
     message |-> message, created_at |-> created_at]

\* GET /api/messages/:userId/:otherId: the conversation of the two users.
GetHistory(p, userId, otherId) ==
    /\ req[p].pc = "idle"
    /\ Client
    /\ emits' = <<>>
    /\ \E body \in Ascending(SelectSeq(messages,
                       LAMBDA m : MessageMatches(m, userId, otherId))) :
           resp' = [op |-> "history", status |-> 200,
                    userId |-> userId, otherId |-> otherId, body |-> body,
                    prev |-> IF /\ resp.op = "history"
                                /\ resp.userId = otherId
                                /\ resp.otherId = userId
                             THEN [swapped |-> TRUE, body |-> resp.body]
                             ELSE NoHistory]
    /\ done' = NoDone
    /\ UNCHANGED <<deployment, comments, eventStore, userStore, socialStore, msgStore, presence, req>>

\* POST /api/messages: validate, insert one row, return it.
SendMessage(p, from_user, to_user, message) ==
    /\ variant = "rest"
    /\ req[p].pc = "idle"
    /\ Client
    /\ emits' = <<>>
    /\ IF from_user = NoValue \/ to_user = NoValue \/ message = NoValue
       THEN /\ resp' = [op |-> "sendMessage", status |-> 400]
            /\ UNCHANGED messages
       ELSE /\ Len(messages) < MaxMessages
            /\ \E t \in Stamps :
                  /\ messages' = Append(messages, NewMessage(from_user, to_user, message, t))
                  /\ resp' = [op |-> "sendMessage", status |-> 200,
                              body |-> NewMessage(from_user, to_user, message, t)]
    /\ done' = NoDone
    /\ UNCHANGED <<deployment, comments, eventStore, userStore, socialStore, presence, req>>

\* ---------------------------------------------------------------- presence
\* onlineUsers is a Map of user id -> socket id; a Map keeps its keys in the
\* order of their first insertion: a sequence of entries with distinct uids.
NoHandler == [pc |-> "idle", uid |-> NoValue, username |-> NoValue,
              alone |-> FALSE, held |-> {}, later |-> FALSE, registered |-> {}]

\* (mutant) an entry is added without looking for one of the same key
MapSetAppend(m, uid, sid) == Append(m, [uid |-> uid, sid |-> sid])

\* onlineUsers.set(uid, sid)
MapSet(m, uid, sid) ==
    IF \E i \in DOMAIN m : m[i].uid = uid
    THEN [i \in DOMAIN m |-> IF m[i].uid = uid THEN [uid |-> uid, sid |-> sid] ELSE m[i]]
    ELSE Append(m, [uid |-> uid, sid |-> sid])

\* (mutant) the recipient is never looked up
MapGetNothing(m, uid) == NoValue

\* onlineUsers.get(uid), undefined when there is no entry
MapGet(m, uid) ==
    IF \E i \in DOMAIN m : m[i].uid = uid
    THEN m[CHOOSE i \in DOMAIN m : m[i].uid = uid].sid
    ELSE NoValue

\* onlineUsers.delete(uid)
MapDelete(m, uid) == SelectSeq(m, LAMBDA e : e.uid # uid)

\* (mutant) the first entry of the map, whatever its socket
FirstOfAny(m, sid) == IF m = <<>> THEN NoValue ELSE m[1].uid

\* for (const [uid, sid] of onlineUsers.entries()) if (sid === socketId):
\* the first entry of the socket, null when there is none
FirstOf(m, sid) ==
    IF \E i \in DOMAIN m : m[i].sid = sid
    THEN m[CHOOSE i \in DOMAIN m :
              m[i].sid = sid /\ \A j \in DOMAIN m : m[j].sid = sid => i <= j].uid
    ELSE NoValue

\* history: the user ids the map holds for a socket
HeldBy(m, sid) == {m[i].uid : i \in {j \in DOMAIN m : m[j].sid = sid}}

\* history: some socket handler is suspended at an await
Busy == \E c \in SocketIds : reg[c].pc # "idle" \/ disc[c].pc # "idle"

\* history: a handler that starts overlaps every one in flight
Disturb(h) ==
    [c \in SocketIds |-> IF h[c].pc # "idle" THEN [h[c] EXCEPT !.alone = FALSE] ELSE h[c]]

\* history: a registerUser for uid starts while a disconnect that removed
\* uid's entry is suspended at an await
Reregistered(h, uid) ==
    [c \in SocketIds |->
        IF h[c].pc # "idle" /\ h[c].uid = uid THEN [h[c] EXCEPT !.later = TRUE] ELSE h[c]]

\* io.on('connection'): a client connects and gets a socket id of its own.
Connect(c) ==
    /\ variant = "socket"
    /\ conn[c] = "new"
    /\ conn' = [conn EXCEPT ![c] = "open"]
    /\ resp' = NoResp
    /\ emits' = <<>>
    /\ done' = NoDone
    /\ UNCHANGED <<deployment, comments, eventStore, userStore, socialStore, msgStore, req,
                   onlineUsers, reg, disc>>

\* socket.on('registerUser'), to the first await: enter the user in the map.
RegisterUser(c, id, username) ==
    /\ variant = "socket"
    /\ conn[c] = "open"
    /\ reg[c].pc = "idle"
    /\ resp' = NoResp
    /\ emits' = <<>>
    /\ done' = NoDone
    /\ IF id = NoValue
       THEN UNCHANGED <<onlineUsers, reg, disc>>
       ELSE /\ onlineUsers' = MapSet(onlineUsers, id, c)
            /\ reg' = [Disturb(reg) EXCEPT ![c] =
                          [pc |-> "reg_update", uid |-> id, username |-> username,
                           alone |-> ~Busy, held |-> {}, later |-> FALSE,
                           registered |-> reg[c].registered \cup {id}]]
            /\ disc' = Reregistered(Disturb(disc), id)
    /\ UNCHANGED <<deployment, comments, eventStore, userStore, socialStore, msgStore, req, conn>>

\* registerUser, first await: mark the user online in the table.
RegisterMarkOnline(c) ==
    /\ reg[c].pc = "reg_update"
    /\ users' = SetOnline(reg[c].uid, TRUE)
    /\ reg' = [reg EXCEPT ![c].pc = "reg_select"]
    /\ resp' = NoResp
    /\ emits' = <<>>
    /\ done' = NoDone
    /\ UNCHANGED <<deployment, comments, eventStore, signedUp, socialStore, msgStore, req,
                   onlineUsers, conn, disc>>

\* registerUser, second await: read the users and broadcast them.
RegisterBroadcast(c) ==
    /\ reg[c].pc = "reg_select"
    /\ emits' = <<[to |-> "all", event |-> "usersOnline", users |-> users],
                  [to |-> "all", event |-> "activity", user |-> reg[c].username]>>
    /\ done' = [handler |-> "registerUser", sid |-> c, uid |-> reg[c].uid,
                alone |-> reg[c].alone, held |-> {}, list |-> users]
    /\ reg' = [reg EXCEPT ![c] = [NoHandler EXCEPT !.registered = reg[c].registered]]
    /\ resp' = NoResp
    /\ UNCHANGED <<deployment, comments, eventStore, userStore, socialStore, msgStore, req,
                   onlineUsers, conn, disc>>

\* socket.on('disconnect'), to the first await: find the first entry of the
\* socket and delete it.
Disconnect(c) ==
    /\ conn[c] = "open"
    /\ disc[c].pc = "idle"
    /\ conn' = [conn EXCEPT ![c] = "closed"]
    /\ resp' = NoResp
    /\ emits' = <<>>
    /\ LET disconnectedUid == FirstOf(onlineUsers, c)
       IN IF disconnectedUid = NoValue
          THEN /\ done' = [handler |-> "disconnect", sid |-> c, uid |-> NoValue,
                           alone |-> ~Busy, held |-> HeldBy(onlineUsers, c),
                           list |-> <<>>, later |-> FALSE,
                           map0 |-> onlineUsers, users0 |-> users]
               /\ UNCHANGED <<onlineUsers, reg, disc>>
          ELSE /\ onlineUsers' = MapDelete(onlineUsers, disconnectedUid)
               /\ disc' = [Disturb(disc) EXCEPT ![c] =
                              [pc |-> "disc_update", uid |-> disconnectedUid,
                               username |-> NoValue, alone |-> ~Busy,
                               held |-> HeldBy(onlineUsers, c), later |-> FALSE,
                               registered |-> {}]]
               /\ reg' = Disturb(reg)
               /\ done' = NoDone
    /\ UNCHANGED <<deployment, comments, eventStore, userStore, socialStore, msgStore, req>>

\* disconnect, first await: mark the user offline in the table.
DisconnectMarkOffline(c) ==
    /\ disc[c].pc = "disc_update"
    /\ users' = SetOnline(disc[c].uid, FALSE)
    /\ disc' = [disc EXCEPT ![c].pc = "disc_select"]
    /\ resp' = NoResp
    /\ emits' = <<>>
    /\ done' = NoDone
    /\ UNCHANGED <<deployment, comments, eventStore, signedUp, socialStore, msgStore, req,
                   onlineUsers, conn, reg>>

\* disconnect, second await: read the users and broadcast them.
DisconnectBroadcast(c) ==
    /\ disc[c].pc = "disc_select"
    /\ emits' = <<[to |-> "all", event |-> "usersOnline", users |-> users]>>
    /\ done' = [handler |-> "disconnect", sid |-> c, uid |-> disc[c].uid,
                alone |-> disc[c].alone, held |-> disc[c].held, list |-> users,
                later |-> disc[c].later, map0 |-> onlineUsers, users0 |-> users]
    /\ disc' = [disc EXCEPT ![c] = NoHandler]
    /\ resp' = NoResp
    /\ UNCHANGED <<deployment, comments, eventStore, userStore, socialStore, msgStore, req,
                   onlineUsers, conn, reg>>

\* getUserIdBySocket(socketId): the first user id mapped to the socket, null
\* when there is none
getUserIdBySocket(socketId) == FirstOf(onlineUsers, socketId)

\* socket.on('typing') and socket.on('stopTyping'): relay the signal to the
\* recipient's socket when the map has one.
Relay(c, to, handler, signal) ==
    /\ variant = "socket"
    /\ conn[c] = "open"
    /\ resp' = NoResp
    /\ LET recipientSocketId == MapGet(onlineUsers, to)
       IN emits' = IF recipientSocketId # NoValue
                   THEN <<[to |-> recipientSocketId, event |-> signal,
                           from |-> getUserIdBySocket(c)]>>
                   ELSE <<>>
    /\ done' = [handler |-> handler, sid |-> c, uid |-> to, map0 |-> onlineUsers,
                users0 |-> users, messages0 |-> messages]
    /\ UNCHANGED <<deployment, comments, eventStore, userStore, socialStore, msgStore, req,
                   presence>>

Typing(c, to) == Relay(c, to, "typing", "typingStart")

StopTyping(c, to) == Relay(c, to, "stopTyping", "typingStop")

\* socket.on('sendMessage'): insert the row; when the insert fails, return;
\* otherwise send the row to the recipient's socket when the map has one, and
\* echo it to the sender.
SocketSendMessage(c, from, to, message) ==
    /\ variant = "socket"
    /\ conn[c] = "open"
    /\ resp' = NoResp
    /\ \E error \in BOOLEAN :
          /\ done' = [handler |-> "sendMessage", sid |-> c, uid |-> to,
                      error |-> error, messages0 |-> messages]
          /\ IF error
             THEN /\ emits' = <<>>
                  /\ UNCHANGED messages
             ELSE /\ Len(messages) < MaxMessages
                  /\ \E t \in Stamps :
                        LET data == NewMessage(from, to, message, t)
                            recipientSocketId == MapGet(onlineUsers, to)
                        IN /\ messages' = Append(messages, data)
                           /\ emits' =
                                 (IF recipientSocketId # NoValue
                                  THEN <<[to |-> recipientSocketId, event |-> "newMessage",
                                          payload |-> data]>>
                                  ELSE <<>>)
                                 \o <<[to |-> c, event |-> "newMessage", payload |-> data]>>
    /\ UNCHANGED <<deployment, comments, eventStore, userStore, socialStore, req,
                   onlineUsers, conn, reg, disc>>

\* ---------------------------------------------------------- specifications
\* every table but users empty, no request in flight, nobody connected
Tables ==
    /\ comments = NoComments
    /\ events = <<>>
    /\ eventSeq = 0
    /\ req = [p \in Procs |-> Idle]
    /\ resp = NoResp
    /\ emits = <<>>
    /\ lastToggle = NoToggle
    /\ signedUp = {}
    /\ follows = <<>>
    /\ followSeq = 0
    /\ notifications = <<>>
    /\ lastFollow = NoFollow
    /\ messages = <<>>
    /\ onlineUsers = <<>>
    /\ conn = [c \in SocketIds |-> "new"]
    /\ reg = [c \in SocketIds |-> NoHandler]
    /\ disc = [c \in SocketIds |-> NoHandler]
    /\ done = NoDone
    /\ now = 0

\* the tables empty and the datastore configured
Fresh ==
    /\ env = AllSet
    /\ Tables

InitRsvp ==
    /\ variant \in Variants
    /\ users = <<>>
    /\ Fresh

\* The user ids RSVP requests carry.  The REST variants reject a missing
\* userId; the socket variant does not check it, and the requests drawn for it
\* all carry one.
RsvpUserIds == UserIds \cup (IF variant = "rest" THEN {NoValue} ELSE {})

NextRsvp ==
    \E p \in Procs :
        \/ \E name \in {NoValue, "Picnic"}, host \in {NoValue, "alice"} :
               CreateEvent(p, name, "Park", "Social", host, NoOptions)
        \/ \E id \in EventIds : DeleteEvent(p, id)
        \/ \E id \in EventIds \cup {MaxEvents + 1}, userId \in RsvpUserIds,
              username \in DisplayNames :
               RsvpFetch(p, id, userId, username)
        \/ RsvpUpdate(p)

SpecRsvp == InitRsvp /\ [][NextRsvp]_vars

\* The identity routes, one request at a time.
UserProcs == {"p1"}
\* username, email, password: all given (the password long or short), the
\* username alone, or one of the three missing
SignUpBodies ==
    {<<username, email, password>> :
        username \in Names, email \in Names, password \in {Pw1, PwShort}}
    \cup {<<username, NoStr, NoStr>> : username \in Names}
    \cup {<<NoStr, <<"a">>, Pw1>>, <<<<"a">>, NoStr, Pw1>>, <<<<"a">>, <<"a">>, NoStr>>}
SignInPasswords == {NoStr, Pw1, Pw2}

InitUsers == InitRsvp

NextUsers ==
    \E p \in UserProcs :
        \/ \E body \in SignUpBodies :
               \/ SignUpCheckEmail(p, body[1], body[2], body[3])
               \/ SocketSignUpLookup(p, body[1], body[2], body[3])
        \/ SignUpCheckName(p)
        \/ SignUpInsert(p)
        \/ SocketSignUpInsert(p)
        \/ SocketLegacyUpdate(p)
        \/ SocketLegacyInsert(p)
        \/ \E email \in Names \cup {NoStr}, password \in SignInPasswords :
               \/ SignInSelect(p, email, password)
               \/ SocketSignInSelect(p, email, password)
        \/ SignInUpdate(p)
        \/ \E userId \in {UserId(n) : n \in 1..MaxUsers} \cup {NoValue} : SignOut(p, userId)
        \/ GetUsers(p)

SpecUsers == InitUsers /\ [][NextUsers]_vars

\* a stored user
StoredUser(id, name, hash, online) ==
    [id |-> id, username |-> name, email |-> name, password_hash |-> hash,
     online |-> online]

\* The follow toggle of the REST variant, two requests at a time; the
\* follower u1 is a stored user, u2 is not.
InitFollow ==
    /\ variant = "rest"
    /\ users = <<StoredUser("u1", <<"a">>, hashPassword(Pw1), FALSE)>>
    /\ Fresh

NextFollow ==
    \E p \in Procs :
        \/ \E follower_id \in UserIds \cup {NoValue}, following_id \in UserIds \cup {NoValue} :
               FollowLookup(p, follower_id, following_id)
        \/ FollowDelete(p)
        \/ FollowInsert(p)
        \/ FollowFetchUser(p)
        \/ FollowNotify(p)

SpecFollow == InitFollow /\ [][NextFollow]_vars

\* Messages: the history route of both variants, the send route of the REST
\* variant and the sendMessage event of the socket variant.
\* u3 takes part in no conversation that is requested
MsgIds == {"u1", "u2"}

\* sender and recipient of the messages sent
MsgPairs == {<<"u1", "u2">>, <<"u2", "u1">>, <<"u1", "u3">>}

InitMsg == InitRsvp

NextMsg ==
    \/ \E userId \in MsgIds, otherId \in MsgIds : GetHistory("p1", userId, otherId)
    \/ \E pair \in MsgPairs \cup {<<NoValue, "u2">>}, message \in {NoValue, "hi"} :
           SendMessage("p1", pair[1], pair[2], message)
    \/ Connect("c1")
    \/ \E pair \in MsgPairs : SocketSendMessage("c1", pair[1], pair[2], "hi")

SpecMsg == InitMsg /\ [][NextMsg]_vars

\* Presence in the socket variant: two stored users, two connections.
PresenceIds == {"u1", "u2", "u3"}

InitPresence ==
    /\ variant = "socket"
    /\ users = <<StoredUser("u1", <<"a">>, BcryptHash(Pw1, "salt1"), TRUE),
                 StoredUser("u2", <<"b">>, BcryptHash(Pw2, "salt2"), TRUE)>>
    /\ Fresh

NextPresence ==
    \E c \in SocketIds :
        \/ Connect(c)
        \/ \E id \in PresenceIds \cup {NoValue} : RegisterUser(c, id, "Bob")
        \/ RegisterMarkOnline(c)
        \/ RegisterBroadcast(c)
        \/ Disconnect(c)
        \/ DisconnectMarkOffline(c)
        \/ DisconnectBroadcast(c)

SpecPresence == InitPresence /\ [][NextPresence]_vars

\* Events with their optional fields, one request at a time.
EventOptions ==
    {NoOptions,
     [NoOptions EXCEPT !.privacy = "private"],
     [NoOptions EXCEPT !.lat = "5", !.lng = "5"],
     [NoOptions EXCEPT !.tags = Tags(<<"fun">>)],
     [NoOptions EXCEPT !.created_by = "u1"],
     [NoOptions EXCEPT !.rsvps = <<[userId |-> "u2", username |-> "Bob"]>>],
     [privacy |-> "private", lat |-> "5", lng |-> "5", tags |-> Tags(<<"fun">>),
      created_by |-> "u1", rsvps |-> <<[userId |-> "u2", username |-> "Bob"]>>]}

\* name, location, category, host: all given, or one of them missing
RequiredFields ==
    {[i \in 1..4 |-> IF i = missing THEN NoValue
                     ELSE <<"Picnic", "Park", "Social", "alice">>[i]] : missing \in 0..4}

InitEvents == InitRsvp

NextEvents ==
    \/ \E f \in RequiredFields, opts \in EventOptions :
           CreateEvent("p1", f[1], f[2], f[3], f[4], opts)
    \/ \E id \in EventIds : DeleteEvent("p1", id)
    \/ \E id \in EventIds, userId \in UserIds : RsvpFetch("p1", id, userId, "Bob")
    \/ RsvpUpdate("p1")

SpecEvents == InitEvents /\ [][NextEvents]_vars

\* Trending: ten public events are stored already, created in the ten hours
\* before the clock's start; more are created, RSVPs are toggled, time passes.
SeededEvent(id) ==
    [id |-> id, name |-> "Seed", host |-> "alice", privacy |-> "public",
     lat |-> "0", lng |-> "0", rsvps |-> <<>>, tags |-> Tags(<<>>),
     created_by |-> NoValue, created_at |-> id]

InitTrending ==
    /\ variant = "rest"
    /\ users = <<>>
    /\ events = [id \in (0 - TrendingLimit)..(0 - 1) |-> SeededEvent(id)]
    /\ eventSeq = 0
    /\ req = [p \in Procs |-> Idle]
    /\ resp = NoResp
    /\ emits = <<>>
    /\ lastToggle = NoToggle
    /\ signedUp = {}
    /\ follows = <<>>
    /\ followSeq = 0
    /\ notifications = <<>>
    /\ lastFollow = NoFollow
    /\ messages = <<>>
    /\ onlineUsers = <<>>
    /\ conn = [c \in SocketIds |-> "new"]
    /\ reg = [c \in SocketIds |-> NoHandler]
    /\ disc = [c \in SocketIds |-> NoHandler]
    /\ done = NoDone
    /\ now = 0
    /\ env = AllSet
    /\ comments = NoComments

NextTrending ==
    \/ \E privacy \in {NoValue, "private"} :
           CreateEvent("p1", "Picnic", "Park", "Social", "alice",
                       [NoOptions EXCEPT !.privacy = privacy])
    \/ \E id \in {0 - TrendingLimit} \cup EventIds, userId \in UserIds :
           RsvpFetch("p1", id, userId, "Bob")
    \/ RsvpUpdate("p1")
    \/ \E h \in {12} : Tick(h)
    \/ Trending("p1")

SpecTrending == InitTrending /\ [][NextTrending]_vars

\* Every route of the REST variant, one request at a time, under each
\* combination of datastore variables set and missing.
InitConfig ==
    /\ variant = "rest"
    /\ env \in [SUPABASE_URL : BOOLEAN, SUPABASE_SERVICE_KEY : BOOLEAN]
    /\ users = <<>>
    /\ Tables

NextConfig ==
    \/ \E route \in DataRoutes : NotConfigured("p1", route)
    \/ Health("p1")
    \/ \E password \in {NoStr, Pw1} : SignUpCheckEmail("p1", <<"a">>, <<"a">>, password)
    \/ SignUpCheckName("p1")
    \/ SignUpInsert("p1")
    \/ SignInSelect("p1", <<"a">>, Pw1)
    \/ SignInUpdate("p1")
    \/ SignOut("p1", UserId(1))
    \/ GetUsers("p1")
    \/ \E name \in {NoValue, "Picnic"} :
           CreateEvent("p1", name, "Park", "Social", "alice", NoOptions)
    \/ DeleteEvent("p1", 1)
    \/ \E userId \in {NoValue, "u1"} : RsvpFetch("p1", 1, userId, "Bob")
    \/ RsvpUpdate("p1")
    \/ Trending("p1")
    \/ GetHistory("p1", "u1", "u2")
    \/ \E message \in {NoValue, "hi"} : SendMessage("p1", "u1", "u2", message)
    \/ GetComments("p1", 1)
    \/ \E body \in {NoValue, "nice"} : PostComment("p1", 1, "u1", body)
    \/ DeleteComment("p1", 1)
    \/ \E following_id \in {NoValue, "u2"} : FollowLookup("p1", "u1", following_id)
    \/ FollowDelete("p1")
    \/ FollowInsert("p1")
    \/ FollowFetchUser("p1")
    \/ FollowNotify("p1")
    \/ GetNotifications("p1", "u2")

SpecConfig == InitConfig /\ [][NextConfig]_vars

\* Sign-out next to sign-in, two requests at a time, over two stored users.
InitSignOut ==
    /\ variant = "rest"
    /\ users = <<StoredUser("u1", <<"a">>, hashPassword(Pw1), TRUE),
                 StoredUser("u2", <<"b">>, hashPassword(Pw2), FALSE)>>
    /\ Fresh

NextSignOut ==
    \E p \in Procs :
        \/ \E email \in {<<"a">>, <<"b">>}, password \in {Pw1, Pw2} :
               SignInSelect(p, email, password)
        \/ SignInUpdate(p)
        \/ \E userId \in UserIds \cup {"u3", NoValue} : SignOut(p, userId)

SpecSignOut == InitSignOut /\ [][NextSignOut]_vars

\* Direct messages in the socket variant while users come and go.
InitSend == InitPresence

NextSend ==
    \E c \in SocketIds :
        \/ Connect(c)
        \/ RegisterUser(c, "u2", "Bob")
        \/ RegisterMarkOnline(c)
        \/ RegisterBroadcast(c)
        \/ Disconnect(c)
        \/ DisconnectMarkOffline(c)
        \/ DisconnectBroadcast(c)
        \/ \E to \in {"u2", "u3"} : SocketSendMessage(c, "u1", to, "hi")

SpecSend == InitSend /\ [][NextSend]_vars

\* Register in the REST variant, two requests at a time.
InitRegister ==
    /\ variant = "rest"
    /\ users = <<>>
    /\ Fresh

NextRegister ==
    \E p \in Procs :
        \/ \E username \in {<<"a">>, <<"b">>}, email \in {<<"a">>, <<"b">>} :
               SignUpCheckEmail(p, username, email, Pw1)
        \/ SignUpCheckName(p)
        \/ SignUpInsert(p)

SpecRegister == InitRegister /\ [][NextRegister]_vars

\* Typing signals in the socket variant while users come and go.
InitTyping == InitPresence

NextTyping ==
    \E c \in SocketIds :
        \/ Connect(c)
        \/ \E id \in {"u1", "u2"} : RegisterUser(c, id, "Bob")
        \/ RegisterMarkOnline(c)
        \/ RegisterBroadcast(c)
        \/ Disconnect(c)
        \/ DisconnectMarkOffline(c)
        \/ DisconnectBroadcast(c)
        \/ \E to \in {"u1", "u3"} : Typing(c, to) \/ StopTyping(c, to)

SpecTyping == InitTyping /\ [][NextTyping]_vars

\* The two REST routes that write a notification after their own write: the
\* follow toggle and the RSVP toggle of an event u1 created.
InitSideEffects == InitFollow

NextSideEffects ==
    \/ CreateEvent("p1", "Picnic", "Park", "Social", "alice",
                   [NoOptions EXCEPT !.created_by = "u1"])
    \/ \E id \in EventIds, userId \in UserIds : RsvpFetch("p1", id, userId, "Bob")
    \/ RsvpUpdate("p1")
    \/ \E p \in Procs :
          \/ \E following_id \in UserIds : FollowLookup(p, "u1", following_id)
          \/ FollowDelete(p)
          \/ FollowInsert(p)
          \/ FollowFetchUser(p)
          \/ FollowNotify(p)

SpecSideEffects == InitSideEffects /\ [][NextSideEffects]_vars

\* ------------------------------------------------------------------ claims
\* C1: RSVP toggle is an involution per user.  When a toggle by a user on an
\* event directly follows an earlier toggle by the same user on the same event
\* (each read the list the store held when it wrote, and the second read the
\* list the first wrote), the stored list has the membership it had before the
\* first toggle.
C1_RsvpInvolution ==
    (resp.op = "rsvp" /\ resp.status = 200 /\ resp.second)
        => Members(events[resp.id].rsvps) = resp.before

\* C1 witness: a user on a two-member list toggled off and on again.
C1_Witness ==
    /\ resp.op = "rsvp" /\ resp.status = 200 /\ resp.second
    /\ resp.userId \in resp.before
    /\ Cardinality(resp.before) = 2

\* C2: every stored RSVP list holds at most one entry per user id, in every
\* reachable state, interleaved toggles included.
C2_OneEntryPerUser ==
    \A id \in DOMAIN events :
        \A i, j \in DOMAIN events[id].rsvps :
            i # j => events[id].rsvps[i].userId # events[id].rsvps[j].userId

\* C2 witness: a toggle wrote a list computed from a stale read (another
\* request wrote between its fetch and its update) and the list is not empty.
C2_Witness ==
    /\ resp.op = "rsvp" /\ resp.status = 200 /\ ~resp.undisturbed
    /\ Len(events[resp.id].rsvps) >= 1

\* history: a stored user has this email (letter case ignored) and a hash of
\* this password
CredentialsStored(table, email, password) ==
    \E i \in DOMAIN table :
        /\ table[i].email # NoStr
        /\ Lower(table[i].email) = Lower(email)
        /\ \/ table[i].password_hash = hashPassword(password)
           \/ BcryptCompare(password, table[i].password_hash)

\* C3: a sign-up (with email and password) whose email or username equals,
\* letter case ignored, that of a stored user is answered 409 and inserts no
\* row.
C3_DuplicateIsConflict ==
    (resp.op = "signup" /\ resp.status # 400 /\ resp.proper /\ resp.taken)
        => (resp.status = 409 /\ users = resp.users0)

\* C4: after a successful sign-up with an email and a password (username and
\* email new), a sign-in with the same email and password succeeds; and no
\* sign-up or sign-in response carries the password hash.
C4_SignInAfterSignUp ==
    /\ (resp.op = "signin" /\ resp.status # 400
            /\ <<resp.email, resp.password>> \in signedUp)
           => resp.status = 200
    /\ (resp.op \in {"signup", "signin"} /\ resp.status = 200)
           => "password_hash" \notin DOMAIN resp.body

\* C5: the list GET /api/users returns exposes no user's password hash.
C5_ListHidesHash ==
    resp.op = "getUsers" =>
        \A i \in DOMAIN resp.body :
            \/ "password_hash" \notin DOMAIN resp.body[i]
            \/ resp.body[i].password_hash = NoStr

\* C6, as stated: the second of two successive (non-overlapping) follow toggles
\* for one (follower, following) pair reports following: false and leaves no
\* edge for the pair.
C6_SecondReportsFalse ==
    (resp.op = "follow" /\ resp.status = 200 /\ resp.second)
        => /\ ~resp.following
           /\ Edges(follows, resp.follower_id, resp.following_id) = <<>>

\* C6, amended: two successive (non-overlapping) follow toggles for one pair
\* restore the pair's edge state.  When no edge existed before the first, the
\* second reports following: false and no edge remains; when an edge existed,
\* the second reports following: true and the pair has an edge again.
C6_FollowInvolution ==
    (resp.op = "follow" /\ resp.status = 200 /\ resp.second)
        => IF resp.hadEdge
           THEN /\ resp.following
                /\ Edges(follows, resp.follower_id, resp.following_id) # <<>>
           ELSE /\ ~resp.following
                /\ Edges(follows, resp.follower_id, resp.following_id) = <<>>

C6_Witness ==
    /\ resp.op = "follow" /\ resp.status = 200 /\ resp.second
    /\ ~resp.hadEdge
    /\ resp.found
    /\ resp.follower_id # resp.following_id
    /\ follows # <<>>

\* C7: a follow toggle that finds no edge for the pair appends the edge,
\* reports following: true and, the store accepting the row, appends exactly
\* one notification, of type 'follow' and for the followed user; a toggle that finds the edge deletes it,
\* reports following: false and creates no notification.  Stated of toggles
\* that no other toggle overlaps, by comparing the tables with what they were
\* when the request arrived.
C7_FollowEffects ==
    (resp.op = "follow" /\ resp.status = 200 /\ resp.alone)
        => IF resp.found
           THEN /\ ~resp.following
                /\ follows = SelectSeq(resp.follows0, LAMBDA r : r.id # resp.id)
                /\ Edges(follows, resp.follower_id, resp.following_id) = <<>>
                /\ notifications = resp.notifications0
           ELSE /\ resp.following
                /\ Len(follows) = Len(resp.follows0) + 1
                /\ SubSeq(follows, 1, Len(resp.follows0)) = resp.follows0
                /\ follows[Len(follows)].follower_id = resp.follower_id
                /\ follows[Len(follows)].following_id = resp.following_id
                /\ resp.notified =>
                      /\ Len(notifications) = Len(resp.notifications0) + 1
                      /\ SubSeq(notifications, 1, Len(resp.notifications0))
                            = resp.notifications0
                      /\ notifications[Len(notifications)].type = "follow"
                      /\ notifications[Len(notifications)].user_id = resp.following_id

C7_Witness ==
    /\ resp.op = "follow" /\ resp.status = 200 /\ resp.alone
    /\ ~resp.found /\ resp.following /\ resp.notified
    /\ resp.follower_id # resp.following_id
    /\ resp.follows0 # <<>>
    /\ Len(notifications) = 2

\* C8: the history requested for (A, B) holds each message whose (from, to) is
\* (A, B) or (B, A) once and no other message, in an order of creation time
\* that does not descend; and it holds the same messages as the history
\* requested for (B, A) just before it.
C8_HistorySymmetric ==
    resp.op = "history" =>
        LET A == resp.userId
            B == resp.otherId
            between == {i \in DOMAIN messages :
                           <<messages[i].from_user, messages[i].to_user>>
                               \in {<<A, B>>, <<B, A>>}}
        IN /\ Len(resp.body) = Cardinality(between)
           /\ {resp.body[i] : i \in DOMAIN resp.body} = {messages[i] : i \in between}
           /\ \A i, j \in DOMAIN resp.body :
                  i < j => resp.body[i].created_at <= resp.body[j].created_at
           /\ resp.prev.swapped =>
                  {resp.body[i] : i \in DOMAIN resp.body}
                      = {resp.prev.body[i] : i \in DOMAIN resp.prev.body}

C8_Witness ==
    /\ resp.op = "history"
    /\ resp.prev.swapped
    /\ resp.userId # resp.otherId
    /\ Len(messages) = 3
    /\ Len(resp.body) = 2
    /\ resp.body[1].from_user # resp.body[2].from_user

\* a stored user's row is in the list with online: true
ListedOnline(list, uid) ==
    \E i \in DOMAIN list : list[i].id = uid /\ list[i].online

\* C9: when registerUser for a stored user u1 on connection c1 completes, the
\* usersOnline list it broadcasts has u1 with online: true and the presence
\* map maps u1 to c1; when the disconnect of c1 then completes, the map has no
\* entry for any user it held for c1, that user's stored online flag is false
\* and the list broadcast does not mark the user online.  Stated of handlers
\* that no other socket handler overlaps.
C9_Presence ==
    /\ (done.handler = "registerUser" /\ done.alone
            /\ \E i \in DOMAIN users : users[i].id = done.uid)
           => /\ ListedOnline(done.list, done.uid)
              /\ MapGet(onlineUsers, done.uid) = done.sid
    /\ (done.handler = "disconnect" /\ done.alone)
           => \A u \in done.held :
                  /\ MapGet(onlineUsers, u) = NoValue
                  /\ \A i \in DOMAIN users : users[i].id = u => ~users[i].online
                  /\ ~ListedOnline(done.list, u)

\* C11: an RSVP toggle (a request that carries a user id) on an event id that
\* has no stored event when the handler fetches it is answered 404, and the
\* events and the notifications are what they were when the request arrived.
C11_MissingEventNotFound ==
    (resp.op = "rsvp" /\ resp.absent /\ resp.userId # NoValue)
        => /\ resp.status = 404
           /\ events = resp.events0
           /\ notifications = resp.notifications0

C11_Witness ==
    /\ resp.op = "rsvp" /\ resp.absent /\ resp.userId # NoValue
    /\ resp.status = 404
    /\ \E id \in DOMAIN events : events[id].rsvps # <<>>

\* C12: a successful RSVP toggle has its side effect exactly when it added
\* the user to the list.  In the socket variant the side effect is the
\* activity broadcast; in the REST variant it is one notification of type
\* 'rsvp' for the event's creator, created unless the event has no creator or
\* the creator is the user who RSVPs.
C12_SideEffectOnAdd ==
    (resp.op = "rsvp" /\ resp.status = 200)
        => LET added == /\ resp.userId \in Members(resp.body.rsvps)
                        /\ resp.userId \notin Members(resp.fetched)
               creator == resp.body.created_by
           IN IF variant = "socket"
              THEN (\E i \in DOMAIN emits : emits[i].event = "activity") <=> added
              ELSE IF added /\ creator # NoValue /\ creator # resp.userId
              THEN /\ Len(notifications) = Len(resp.notifications0) + 1
                   /\ SubSeq(notifications, 1, Len(resp.notifications0))
                          = resp.notifications0
                   /\ notifications[Len(notifications)].user_id = creator
                   /\ notifications[Len(notifications)].type = "rsvp"
              ELSE notifications = resp.notifications0

\* the events a trending request should consider: public, created within
\* the last 24 hours
Qualifying ==
    {id \in DOMAIN events :
        events[id].privacy = "public" /\ events[id].created_at >= now - Day}

\* the list holds stored rows, no row twice, in non-increasing order of RSVP
\* count
Ranked(body) ==
    /\ \A i \in DOMAIN body : body[i].id \in DOMAIN events /\ body[i] = events[body[i].id]
    /\ \A i, j \in DOMAIN body : i # j => body[i].id # body[j].id
    /\ \A i, j \in DOMAIN body : i < j => Len(body[i].rsvps) >= Len(body[j].rsvps)

C14_NotConfigured ==
    (variant = "rest" /\ ~(env.SUPABASE_URL /\ env.SUPABASE_SERVICE_KEY)) =>
        /\ resp.op \in DataRoutes \cup {"health", "none"}
        /\ resp.op \in DataRoutes =>
               /\ resp.status = 500
               /\ resp.error = "Database not configured"
               /\ resp = [dbError("POST /api/users") EXCEPT !.op = resp.op]
        /\ resp.op = "health" =>
               /\ resp.status = 500
               /\ resp.text # "Krowdly backend is live"
               /\ \A v \in {"SUPABASE_URL", "SUPABASE_SERVICE_KEY"} :
                      (\E i \in DOMAIN resp.missing_env_vars : resp.missing_env_vars[i] = v)
                          <=> ~env[v]
        /\ \A p \in Procs : req[p] = Idle
        /\ users = <<>> /\ events = <<>> /\ eventSeq = 0 /\ messages = <<>>
        /\ follows = <<>> /\ notifications = <<>> /\ comments = NoComments

C14_Witness ==
    /\ variant = "rest"
    /\ env.SUPABASE_URL /\ ~env.SUPABASE_SERVICE_KEY
    /\ resp = dbError("POST /api/events/:id/comments")

\* C15: a sign-out with a user id answers success, sets the online flag of
\* the rows with that id to false and leaves every other row as it was; one
\* more sign-out for the same id would leave the table as it is, and a
\* sign-out that directly follows a successful one for the same id changes
\* nothing and answers success.
C15_SignOut ==
    (resp.op = "signout" /\ resp.userId # NoValue) =>
        /\ resp.status = 200
        /\ DOMAIN users = DOMAIN resp.users0
        /\ \A i \in DOMAIN users :
               users[i] = IF resp.users0[i].id = resp.userId
                          THEN [resp.users0[i] EXCEPT !.online = FALSE]
                          ELSE resp.users0[i]
        /\ SetOnline(resp.userId, FALSE) = users

C15_Idempotent ==
    [][(/\ resp.op = "signout" /\ resp.userId # NoValue
        /\ resp'.op = "signout" /\ resp'.userId = resp.userId)
           => (resp'.status = 200 /\ users' = users)]_vars

C15_SignOutIdempotent == []C15_SignOut /\ C15_Idempotent

C15_Witness ==
    /\ resp.op = "signout" /\ resp.status = 200
    /\ resp.users0 = users
    /\ \E i \in DOMAIN users : users[i].id = resp.userId
    /\ \E i \in DOMAIN users : users[i].id # resp.userId /\ users[i].online

\* what C16 says of every field but the tags: a request that lacks a required
\* field answers 400 and stores nothing; any other request answers with the
\* stored row, a new one, whose privacy is 'public' and whose coordinates are
\* 0,0 where the request gave none, and whose RSVP list is empty
CreateDefaults ==
    /\ resp.status = 400 <=> \E i \in 1..4 : resp.required[i] = NoValue
    /\ resp.status = 400 => events = resp.events0
    /\ resp.status # 400 =>
           /\ resp.status = 200
           /\ resp.body.id \notin DOMAIN resp.events0
           /\ DOMAIN events = DOMAIN resp.events0 \cup {resp.body.id}
           /\ \A id \in DOMAIN resp.events0 : events[id] = resp.events0[id]
           /\ events[resp.body.id] = resp.body
           /\ resp.opts.privacy = NoValue => resp.body.privacy = "public"
           /\ resp.opts.lat = NoValue => resp.body.lat = "0"
           /\ resp.opts.lng = NoValue => resp.body.lng = "0"
           /\ resp.body.rsvps = <<>>

\* C16, as stated: create event answers 400 and stores nothing when name,
\* location, category or host is missing; otherwise the stored and returned
\* event has privacy 'public', coordinates 0,0 and an empty tag set where none
\* was given, and an empty RSVP list whatever the request says.
C16_CreateEvent ==
    resp.op = "createEvent" =>
        /\ CreateDefaults
        /\ (resp.status = 200 /\ resp.opts.tags.null) => resp.body.tags = Tags(<<>>)

\* C16, amended: as stated, but the empty tag set where none was given is the
\* REST variant's; the socket variant does not write the tags.
C16_CreateEventRestTags ==
    resp.op = "createEvent" =>
        /\ CreateDefaults
        /\ (resp.status = 200 /\ resp.opts.tags.null /\ variant = "rest")
               => resp.body.tags = Tags(<<>>)

C16_Witness ==
    /\ resp.op = "createEvent" /\ resp.status = 200
    /\ resp.opts.rsvps # <<>> /\ resp.body.rsvps = <<>>
    /\ resp.opts.privacy = NoValue /\ resp.opts.lat = NoValue /\ resp.opts.tags.null
    /\ events[resp.body.id].tags = Tags(<<>>)
    /\ variant = "rest"

\* C17: in the socket variant a sendMessage whose row is stored emits
\* newMessage with that row to the connection the presence map holds for the
\* recipient, if it holds one, and to the sending connection, and nothing
\* else; a sendMessage whose insert fails stores and emits nothing.
C17_SendMessage ==
    done.handler = "sendMessage" =>
        IF done.error
        THEN emits = <<>> /\ messages = done.messages0
        ELSE LET entries == {i \in DOMAIN onlineUsers : onlineUsers[i].uid = done.uid}
                 row == messages[Len(messages)]
             IN /\ Len(messages) = Len(done.messages0) + 1
                /\ SubSeq(messages, 1, Len(done.messages0)) = done.messages0
                /\ row.to_user = done.uid
                /\ \A i \in DOMAIN emits :
                       emits[i].event = "newMessage" /\ emits[i].payload = row
                /\ Len(emits) = Cardinality(entries) + 1
                /\ emits[Len(emits)].to = done.sid
                /\ \A i \in entries : emits[1].to = onlineUsers[i].sid

C17_Witness ==
    /\ done.handler = "sendMessage" /\ ~done.error
    /\ Len(emits) = 2
    /\ emits[1].to # done.sid
    /\ \E i \in DOMAIN onlineUsers : onlineUsers[i].uid = done.uid

C17_WitnessFailed ==
    /\ done.handler = "sendMessage" /\ done.error
    /\ \E i \in DOMAIN onlineUsers : onlineUsers[i].uid = done.uid

\* C18: a toggle that answers success has stored the list it fetched with
\* its own user toggled, whatever the store held when it wrote: what other
\* users got stored between its fetch and its write is not in the stored list.
C18_LastWriterWins ==
    (resp.op = "rsvp" /\ resp.status = 200) =>
        LET stored == Members(events[resp.id].rsvps)
            read == Members(resp.fetched)
            overwritten == Members(resp.events0[resp.id].rsvps)
        IN /\ stored = IF resp.userId \in read THEN read \ {resp.userId}
                       ELSE read \cup {resp.userId}
           /\ \A u \in overwritten \ {resp.userId} : u \in stored <=> u \in read

\* C18 witness: two users toggled the same event and both read the list
\* before either wrote.  The first writer added itself (the list this request
\* overwrote holds a user the list it had fetched does not; a list changes
\* only in the step that answers a toggle with success); this request, the
\* second writer, was answered with success too, and the stored list holds
\* its user and not the first writer.
C18_Witness ==
    /\ resp.op = "rsvp" /\ resp.status = 200
    /\ \E u \in Members(resp.events0[resp.id].rsvps) :
          /\ u # resp.userId
          /\ u \notin Members(resp.fetched)
          /\ u \notin Members(events[resp.id].rsvps)
    /\ resp.userId \in Members(events[resp.id].rsvps)

\* the rows of a follows table for the pair of the last response
PairRows(rows) ==
    SelectSeq(rows, LAMBDA r : /\ r.follower_id = resp.follower_id
                               /\ r.following_id = resp.following_id)

\* C19: a follow toggle decides on what it read and writes without looking
\* again.  It deletes exactly when it read one edge for the pair, and then
\* removes the row it read, if that row is still there; otherwise it appends
\* an edge for the pair to whatever the pair's rows are when it writes.
C19_WritesWhatItDecided ==
    (resp.op = "follow" /\ resp.status = 200) =>
        /\ resp.found <=> Len(PairRows(resp.follows0)) = 1
        /\ resp.following <=> ~resp.found
        /\ IF resp.found
           THEN resp.written = SelectSeq(resp.overwrote, LAMBDA r : r.id # resp.id)
           ELSE /\ Len(resp.written) = Len(resp.overwrote) + 1
                /\ SubSeq(resp.written, 1, Len(resp.overwrote)) = resp.overwrote

\* C19 witness: two overlapping toggles for one pair both read that the pair
\* has no edge and both inserted one: the table holds two edges for the pair,
\* where the two toggles one after the other would have left none.
C19_Witness ==
    /\ resp.op = "follow" /\ resp.status = 200 /\ ~resp.alone
    /\ ~resp.found /\ resp.following
    /\ PairRows(resp.follows0) = <<>>
    /\ Len(resp.overwrote) = 1
    /\ Len(PairRows(follows)) = 2

\* two overlapping toggles for one pair both read the pair's edge and both
\* deleted it: no edge is left, where the two toggles one after the other
\* would have left one.
C19_WitnessDelete ==
    /\ resp.op = "follow" /\ resp.status = 200 /\ ~resp.alone
    /\ resp.found /\ ~resp.following
    /\ resp.overwrote = <<>>
    /\ PairRows(follows) = <<>>

\* no two stored users share a username or an email
Unique ==
    \A i, j \in DOMAIN users :
        i # j => /\ users[i].username # users[j].username
                 /\ users[i].email = NoStr \/ users[i].email # users[j].email

\* C20, second half: with Register requests that do not overlap (REST
\* variant, one request at a time), no state is reachable in which two stored
\* users share a username or an email.
C20_SequentialUnique == variant = "rest" => Unique

\* C20, first half: two overlapping Register requests with the same username
\* and email were both answered with success and both rows are stored.
C20_OverlapDuplicates ==
    /\ resp.op = "signup" /\ resp.status = 200
    /\ Len(users) = 2
    /\ users[1].username = users[2].username
    /\ users[1].email = users[2].email

\* history: no registerUser or disconnect handler for the user is suspended
Quiet(u) ==
    \A c \in SocketIds :
        /\ reg[c].pc # "idle" => reg[c].uid # u
        /\ disc[c].pc # "idle" => disc[c].uid # u

\* C21: in the socket variant, whenever the presence map holds an entry for a
\* stored user and no registerUser or disconnect handler for that user is in
\* progress, the user's stored online flag is true; and when a disconnect
\* that removed a user's entry completes and no registerUser for that user
\* has started since, the user's flag is false.
C21_FlagFollowsPresence ==
    /\ \A i \in DOMAIN users :
           (MapGet(onlineUsers, users[i].id) # NoValue /\ Quiet(users[i].id))
               => users[i].online
    /\ (done.handler = "disconnect" /\ done.uid # NoValue /\ ~done.later
            /\ Quiet(done.uid))
           => \A i \in DOMAIN users : users[i].id = done.uid => ~users[i].online

\* a state C21 rules out: every handler has completed, the old connection of
\* a user is closed, the map holds the user's entry for the new connection,
\* and the user's stored flag is false
C21_MappedButOffline ==
    /\ ~Busy
    /\ conn["c1"] = "closed" /\ conn["c2"] = "open"
    /\ \E i \in DOMAIN users :
          /\ MapGet(onlineUsers, users[i].id) = "c2"
          /\ ~users[i].online

\* a registerUser event maps its user to its connection, with one entry for
\* the user, and leaves the entries of the other users as they were
C22_Overwrite ==
    [][\A c \in SocketIds :
          (reg[c].pc = "idle" /\ reg'[c].pc = "reg_update") =>
              LET u == reg'[c].uid
              IN /\ Cardinality({i \in DOMAIN onlineUsers' : onlineUsers'[i].uid = u}) = 1
                 /\ \E i \in DOMAIN onlineUsers' :
                        onlineUsers'[i] = [uid |-> u, sid |-> c]
                 /\ SelectSeq(onlineUsers', LAMBDA e : e.uid # u)
                        = SelectSeq(onlineUsers, LAMBDA e : e.uid # u)]_vars

\* the disconnect of a connection that the map holds no entry for (each user
\* it registered has registered again on another connection) removes no
\* entry, writes no online flag, starts no handler and broadcasts nothing
C22_OldDisconnect ==
    (done.handler = "disconnect" /\ done.held = {}) =>
        /\ done.uid = NoValue
        /\ onlineUsers = done.map0
        /\ users = done.users0
        /\ disc[done.sid].pc = "idle"
        /\ emits = <<>>

C23_Typing ==
    done.handler \in {"typing", "stopTyping"} =>
        LET entries == {i \in DOMAIN onlineUsers : onlineUsers[i].uid = done.uid}
            senders == {onlineUsers[i].uid :
                           i \in {j \in DOMAIN onlineUsers : onlineUsers[j].sid = done.sid}}
        IN /\ onlineUsers = done.map0
           /\ users = done.users0
           /\ messages = done.messages0
           /\ Len(emits) = Cardinality(entries)
           /\ \A i \in DOMAIN emits :
                  /\ emits[i].event = IF done.handler = "typing" THEN "typingStart"
                                      ELSE "typingStop"
                  /\ \A e \in entries : emits[i].to = onlineUsers[e].sid
                  /\ IF senders = {} THEN emits[i].from = NoValue
                     ELSE emits[i].from \in senders

\* C23 witness: a typing signal relayed to another connection, from the user
\* of the sending connection.
C23_Witness ==
    /\ done.handler = "typing"
    /\ Len(emits) = 1
    /\ emits[1].to # done.sid
    /\ emits[1].from = "u2"
    /\ Len(onlineUsers) = 2 /\ onlineUsers[1].uid = "u1"

\* C24: a notification insert that fails is swallowed.  A follow toggle whose
\* insert of the notification fails still answers 200 with following: true,
\* the edge it inserted stored, and no notification stored by it.  An RSVP
\* that answers 200 without having stored a notification returns the stored
\* event with the list change in it, and the notifications are as they were.
C24_FollowSwallows ==
    (resp.op = "follow" /\ resp.status = 200 /\ resp.found = FALSE /\ ~resp.notified) =>
        /\ resp.following
        /\ resp.written # <<>>
        /\ resp.alone => Edges(follows, resp.follower_id, resp.following_id) # <<>>
        /\ notifications = resp.before

C24_RsvpSwallows ==
    (resp.op = "rsvp" /\ resp.status = 200 /\ ~resp.notified) =>
        /\ resp.body = events[resp.id]
        /\ (resp.userId \in Members(resp.body.rsvps))
              # (resp.userId \in Members(resp.fetched))
        /\ notifications = resp.notifications0

C25_NoEntryAfterDisconnect ==
    done.handler = "disconnect" => HeldBy(onlineUsers, done.sid) = {}

\* C25: the state the break leaves: the disconnect of a connection that
\* registered two user ids has completed alone, and the map still maps the
\* second to it.
C25_Leftover ==
    /\ done.handler = "disconnect" /\ done.alone /\ ~Busy
    /\ Cardinality(done.held) = 2
    /\ conn[done.sid] = "closed"
    /\ Cardinality(HeldBy(onlineUsers, done.sid)) = 1

\* C10: a sign-in whose email and password match no stored user is answered
\* 401 and changes no online flag; a successful sign-in returns online: true
\* and leaves the user's stored flag true.
C10_SignIn ==
    /\ (resp.op = "signin" /\ resp.status # 400
            /\ ~CredentialsStored(resp.users0, resp.email, resp.password))
           => (resp.status = 401 /\ users = resp.users0)
    /\ (resp.op = "signin" /\ resp.status = 200)
           => /\ resp.body.online
              /\ \A i \in DOMAIN users :
                     users[i].id = resp.body.id => users[i].online

====
